---------------------------- MODULE Spec2Model ----------------------------
(***************************************************************************)
(* A model of generate_scores.py: the Aave V2 wallet credit scoring        *)
(* pipeline  load -> engineer_features -> generate_credit_scores -> save.  *)
(*                                                                         *)
(* JSON values are tagged records, Python floats are integers rounded to   *)
(* MantBits significant bits (round half to even, as IEEE-754 does with    *)
(* 53 bits), ratios produced by "/" are fractions in lowest terms.         *)
(***************************************************************************)
EXTENDS Integers, Sequences, FiniteSets, TLC

VARIABLES pc, n_clusters, raw_data, load_status, df_features, cluster,
          credit_score, output_written, error, steps

vars == <<pc, n_clusters, raw_data, load_status, df_features, cluster,
          credit_score, output_written, error, steps>>

(***************************************************************************)
(* Bounds of the model and constants of the program.                       *)
(***************************************************************************)
\* Longest record list drawn from the record universe.
MaxLen == 3
\* Number of wallets of a scoring batch (KMeans needs n_samples >= n_clusters).
NumWallets == 5
\* Significant bits a float keeps (53 in the program).
MantBits == 3
\* N_CLUSTERS = 5
N_CLUSTERS == 5
\* float(amount) / 1e6
UNIT_DIVISOR == 1000000
\* (timestamps[-1] - timestamps[0]) / 86400
SECONDS_PER_DAY == 86400
\* (... * (1000 / (N_CLUSTERS - 1)))
SCORE_SCALE == 1000

(***************************************************************************)
(* JSON values as json.load returns them, and a key that is absent.        *)
(***************************************************************************)
JNum(x) == [t |-> "num", n |-> x, s |-> ""]
JStr(x) == [t |-> "str", n |-> 0, s |-> x]
JNull == [t |-> "null", n |-> 0, s |-> ""]
JAbsent == [t |-> "absent", n |-> 0, s |-> ""]

\* dict.get(key) with no default: an absent key reads as None.
DictGet(v) == IF v.t = "absent" THEN JNull ELSE v

\* dict.get(key, default).
DictGetDefault(v, d) == IF v.t = "absent" THEN d ELSE v

\* Python truthiness of a value inside all([...]).
Truthy(v) ==
    CASE v.t = "num" -> v.n # 0
      [] v.t = "str" -> v.s # ""
      [] OTHER -> FALSE

\* The action used as it is, letter case kept.
LowerSkipped(s) == s

\* str.lower() on the action strings of the record universe.
Lower(s) ==
    CASE s = "Repay" -> "repay"
      [] s = "LiquidationCall" -> "liquidationcall"
      [] s = "Deposit" -> "deposit"
      [] OTHER -> s

(***************************************************************************)
(* Floats: an integer rounded to MantBits significant bits.                *)
(***************************************************************************)
RECURSIVE Pow2(_)
Pow2(k) == IF k = 0 THEN 1 ELSE 2 * Pow2(k - 1)

Abs(x) == IF x < 0 THEN -x ELSE x

RECURSIVE FlExp(_, _)
\* The exponent e with n < 2^(MantBits + e), least such.
FlExp(n, e) == IF n < Pow2(MantBits + e) THEN e ELSE FlExp(n, e + 1)

\* Round half to even to MantBits significant bits.
Fl(x) ==
    LET n == Abs(x)
        e == FlExp(n, 0)
        q == n \div Pow2(e)
        r == n % Pow2(e)
        up == 2 * r > Pow2(e) \/ (2 * r = Pow2(e) /\ q % 2 = 1)
        m == (IF up THEN q + 1 ELSE q) * Pow2(e)
    IN  IF x < 0 THEN -m ELSE m

FloatAdd(x, y) == Fl(x + y)
FloatMul(x, y) == Fl(x * y)

\* float(v) on the values of the record universe: the number (the raw token
\* amounts and prices of the universe are integers a double holds exactly),
\* or the exception float() raises.
ParseFloat(v) ==
    CASE v.t = "num" -> [exc |-> "", val |-> v.n]
      [] v.t = "str" ->
           (CASE v.s = "1000000" -> [exc |-> "", val |-> 1000000]
              [] v.s = "8000000" -> [exc |-> "", val |-> 8000000]
              [] OTHER -> [exc |-> "ValueError", val |-> 0])
      [] OTHER -> [exc |-> "TypeError", val |-> 0]

(***************************************************************************)
(* The value of x / y: a fraction in lowest terms, denominator positive.   *)
(***************************************************************************)
RECURSIVE Gcd(_, _)
Gcd(a, b) == IF b = 0 THEN a ELSE Gcd(b, a % b)

Frac(a, b) ==
    LET g == Gcd(Abs(a), Abs(b))
        sgn == IF b < 0 THEN -1 ELSE 1
    IN  [num |-> sgn * (a \div g), den |-> sgn * (b \div g)]

FracOfInt(a) == [num |-> a, den |-> 1]
FracAdd(x, y) == Frac(x.num * y.den + y.num * x.den, x.den * y.den)
FracSub(x, y) == Frac(x.num * y.den - y.num * x.den, x.den * y.den)
FracMul(x, y) == Frac(x.num * y.num, x.den * y.den)
FracDiv(x, y) == Frac(x.num * y.den, x.den * y.num)
FracLt(x, y) == x.num * y.den < y.num * x.den
FracLe(x, y) == x.num * y.den <= y.num * x.den
\* astype(int): truncation toward zero.
FracTrunc(x) ==
    IF x.num >= 0 THEN x.num \div x.den ELSE -((-x.num) \div x.den)

(***************************************************************************)
(* Dictionaries.                                                           *)
(***************************************************************************)
Put(f, k, v) == [x \in DOMAIN f \cup {k} |-> IF x = k THEN v ELSE f[x]]
Get(f, k, d) == IF k \in DOMAIN f THEN f[k] ELSE d

(***************************************************************************)
(* engineer_features: the scan of the records.                             *)
(***************************************************************************)
\* tx['actionData']['amount'], tx['actionData'].get('assetPriceUSD', 1.0),
\* the two float() calls and the product: the USD value of the record, or
\* the exception raised inside the try block.
UsdValue(tx) ==
    IF tx.actionData = "absent" THEN [exc |-> "KeyError", val |-> 0]
    ELSE IF tx.actionData = "null" THEN [exc |-> "TypeError", val |-> 0]
    ELSE IF tx.amount.t = "absent" THEN [exc |-> "KeyError", val |-> 0]
    ELSE LET a == ParseFloat(tx.amount)
             p == ParseFloat(DictGetDefault(tx.assetPriceUSD, JNum(1)))
         IN  IF a.exc # "" THEN a
             ELSE IF p.exc # "" THEN p
             ELSE [exc |-> "",
                   val |-> FloatMul(Fl(a.val \div UNIT_DIVISOR), p.val)]

\* wallet_stats[wallet][key] += v on a defaultdict(float).
AddTo(stats, key, v) == Put(stats, key, FloatAdd(Get(stats, key, 0), v))

\* Lines 102-110: the record's contribution to its wallet's accumulator.
Accumulate(acc, wallet, action, timestamp, usd_value) ==
    LET s0 == Get(acc.wallet_stats, wallet, <<>>)
        s1 == AddTo(s0, "total_tx", 1)
        s2 == AddTo(s1, "total_usd_all_actions", usd_value)
        s3 == AddTo(s2, "num_" \o action, 1)
        s4 == AddTo(s3, "total_usd_" \o action, usd_value)
    IN  [wallet_stats |-> Put(acc.wallet_stats, wallet, s4),
         actions_set |->
             Put(acc.actions_set, wallet,
                 Get(acc.actions_set, wallet, {}) \cup {action}),
         wallet_timestamps |->
             Put(acc.wallet_timestamps, wallet,
                 Append(Get(acc.wallet_timestamps, wallet, <<>>), timestamp)),
         exc |-> ""]

\* Whether the record passes "if not all([wallet, action, timestamp])".
HasEssentials(wallet, action, timestamp) ==
    Truthy(wallet) /\ action # "" /\ Truthy(timestamp)

\* One iteration of "for tx in raw_data" (lines 86-110).
ScanRecord(acc, tx) ==
    LET wallet == DictGet(tx.userWallet)
        rawAction == DictGetDefault(tx.action, JStr(""))
        timestamp == DictGet(tx.timestamp)
    IN  IF rawAction.t # "str"
        THEN [acc EXCEPT !.exc = "AttributeError"]
        ELSE LET action == Lower(rawAction.s)
                 usd == UsdValue(tx)
             IN  IF ~HasEssentials(wallet, action, timestamp) THEN acc
                 ELSE IF usd.exc # "" THEN acc
                 ELSE Accumulate(acc, wallet.s, action, timestamp.n, usd.val)

EmptyAcc ==
    [wallet_stats |-> <<>>, actions_set |-> <<>>, wallet_timestamps |-> <<>>,
     exc |-> ""]

RECURSIVE ScanFrom(_, _, _)
\* The loop over raw_data from index i; an uncaught exception ends it.
ScanFrom(raw, i, acc) ==
    IF i > Len(raw) \/ acc.exc # "" THEN acc
    ELSE ScanFrom(raw, i + 1, ScanRecord(acc, raw[i]))

(***************************************************************************)
(* engineer_features: the per-wallet features.                             *)
(***************************************************************************)
RECURSIVE Insert(_, _)
Insert(x, sorted) ==
    IF sorted = <<>> THEN <<x>>
    ELSE IF x <= Head(sorted) THEN <<x>> \o sorted
    ELSE <<Head(sorted)>> \o Insert(x, Tail(sorted))

RECURSIVE Sorted(_)
\* sorted(list)
Sorted(list) ==
    IF list = <<>> THEN <<>> ELSE Insert(Head(list), Sorted(Tail(list)))

\* Lines 118-139: the feature row of one wallet.
WalletFeatures(stats, times) ==
    LET total_tx == stats["total_tx"]
        num_borrows == Get(stats, "num_borrow", 0)
        num_liq == Get(stats, "num_liquidationcall", 0)
        timestamps == Sorted(times)
        active_days ==
            IF Len(timestamps) > 1
            THEN Frac(timestamps[Len(timestamps)] - timestamps[1],
                      SECONDS_PER_DAY)
            ELSE FracOfInt(0)
    IN  [total_tx |-> total_tx,
         total_usd_all_actions |-> stats["total_usd_all_actions"],
         repay_borrow_ratio_count |->
             IF num_borrows > 0
             THEN Frac(Get(stats, "num_repay", 0), num_borrows)
             ELSE FracOfInt(1),
         num_liquidations |-> num_liq,
         liquidation_ratio |->
             IF total_tx > 0 THEN Frac(num_liq, total_tx) ELSE FracOfInt(0),
         active_days |-> active_days,
         avg_time_between_tx_days |->
             IF total_tx > 1
             THEN FracDiv(active_days, FracOfInt(total_tx))
             ELSE FracOfInt(0)]

\* engineer_features(raw_data): the feature table (wallet -> row), or the
\* exception that leaves the function. An empty features_list makes
\* pd.DataFrame([]).set_index('wallet') raise KeyError.
engineer_features(raw) ==
    IF raw = <<>> THEN [exc |-> "", rows |-> <<>>]
    ELSE LET acc == ScanFrom(raw, 1, EmptyAcc)
         IN  IF acc.exc # "" THEN [exc |-> acc.exc, rows |-> <<>>]
             ELSE IF DOMAIN acc.wallet_stats = {}
             THEN [exc |-> "KeyError", rows |-> <<>>]
             ELSE [exc |-> "",
                   rows |-> [w \in DOMAIN acc.wallet_stats |->
                               WalletFeatures(acc.wallet_stats[w],
                                              acc.wallet_timestamps[w])]]

(***************************************************************************)
(* The inputs: the record universe and the record lists drawn from it.     *)
(***************************************************************************)
\* A well-formed record: amount in raw token units, no assetPriceUSD.
Rec(w, a, t, amt) ==
    [userWallet |-> JStr(w), action |-> JStr(a), timestamp |-> JNum(t),
     actionData |-> "obj", amount |-> amt, assetPriceUSD |-> JAbsent]

BaseRec == Rec("W1", "deposit", 1000, JStr("1000000"))

\* Records that carry everything engineer_features reads.
WellFormedRecords ==
    { Rec("W1", "deposit", 0, JStr("1000000")),
      Rec("W1", "borrow", 1000, JStr("1000000")),
      Rec("W1", "repay", 2000, JStr("8000000")),
      Rec("W1", "Repay", 1000, JNum(1000000)),
      Rec("W2", "LiquidationCall", 2000, JStr("1000000")),
      Rec("W2", "liquidation-call", 1000, JStr("1000000")),
      [Rec("W2", "borrow", 1000, JNum(-1000000))
           EXCEPT !.assetPriceUSD = JNum(2)] }

\* Records with one essential field missing, empty, null or unparseable.
DefectiveRecords ==
    { [BaseRec EXCEPT !.userWallet = JAbsent],
      [BaseRec EXCEPT !.action = JStr("")],
      [BaseRec EXCEPT !.action = JNull],
      [BaseRec EXCEPT !.timestamp = JNull],
      [BaseRec EXCEPT !.amount = JStr("abc")],
      [BaseRec EXCEPT !.actionData = "absent"],
      [BaseRec EXCEPT !.assetPriceUSD = JNull] }

Records == WellFormedRecords \cup DefectiveRecords

RECURSIVE ListsUpTo(_)
\* The record lists of length at most n.
ListsUpTo(n) ==
    IF n = 0 THEN {<<>>}
    ELSE LET shorter == ListsUpTo(n - 1)
         IN  shorter \cup
             {Append(l, r) : l \in {x \in shorter : Len(x) = n - 1},
                             r \in Records}

SmallBatches == ListsUpTo(MaxLen)

WalletNames == <<"W1", "W2", "W3", "W4", "W5", "W6", "W7", "W8">>

RECURSIVE Repeat(_, _)
Repeat(x, k) == IF k = 0 THEN <<>> ELSE <<x>> \o Repeat(x, k - 1)

\* The actions of wallet i in a scoring batch: an odd wallet borrows once and
\* repays (i+1)/2 times, an even one is liquidated once and deposits i/2 - 1
\* times, which gives the wallets pairwise different ratios.
Profile(i) ==
    IF i % 2 = 1 THEN <<"borrow">> \o Repeat("repay", (i + 1) \div 2)
    ELSE <<"liquidationcall">> \o Repeat("deposit", i \div 2 - 1)

WalletRecords(i, actions) ==
    [k \in 1..Len(actions) |->
        Rec(WalletNames[i], actions[k], 1000 * k, JStr("1000000"))]

RECURSIVE BatchFrom(_, _)
\* Wallets i..NumWallets; the first t wallets only deposit once.
BatchFrom(i, t) ==
    IF i > NumWallets THEN <<>>
    ELSE WalletRecords(i, IF i <= t THEN <<"deposit">> ELSE Profile(i))
         \o BatchFrom(i + 1, t)

\* Record lists of NumWallets wallets, enough for the clustering step: the
\* wallets all different, two alike, all alike.
ScoringBatches == {BatchFrom(1, t) : t \in {0, 2, NumWallets}}

Inputs == SmallBatches \cup ScoringBatches

(***************************************************************************)
(* generate_credit_scores.                                                 *)
(***************************************************************************)
\* KMeans(n_clusters=n).fit_predict on n_samples rows raises when the
\* cluster count is not positive or exceeds the number of rows.
KMeansRaises(n, n_samples) == n < 1 \/ n_samples < n

\* The labellings fit_predict may return: one cluster id per wallet.
Labellings(wallets, n) == [wallets -> 0..(n - 1)]

RECURSIVE SumOver(_, _, _)
\* The sum of column col over the wallets of S.
SumOver(df, col, S) ==
    IF S = {} THEN FracOfInt(0)
    ELSE LET w == CHOOSE x \in S : TRUE
         IN  FracAdd(df[w][col], SumOver(df, col, S \ {w}))

\* groupby('cluster')[col].mean() for one cluster.
ClusterMean(df, labels, col, c) ==
    LET members == {w \in DOMAIN df : labels[w] = c}
    IN  FracDiv(SumOver(df, col, members), FracOfInt(Cardinality(members)))

\* Lines 175-176: mean repay ratio minus twice the mean liquidation ratio,
\* for the clusters that have a wallet.
cluster_health_metric(df, labels) ==
    [c \in {labels[w] : w \in DOMAIN df} |->
        FracSub(ClusterMean(df, labels, "repay_borrow_ratio_count", c),
                FracMul(ClusterMean(df, labels, "liquidation_ratio", c),
                        FracOfInt(2)))]

RECURSIVE InsertFrac(_, _)
InsertFrac(x, sorted) ==
    IF sorted = <<>> THEN <<x>>
    ELSE IF FracLe(x, Head(sorted)) THEN <<x>> \o sorted
    ELSE <<Head(sorted)>> \o InsertFrac(x, Tail(sorted))

RECURSIVE SortedValues(_, _)
\* The values of h over the clusters of S in ascending order.
SortedValues(h, S) ==
    IF S = {} THEN <<>>
    ELSE LET c == CHOOSE x \in S : TRUE
         IN  InsertFrac(h[c], SortedValues(h, S \ {c}))

\* rank(method='first'): the rank grows by one at every position.
RankIncrementOrdinal(prev, cur) == 1

\* rank(method='dense'): the rank grows by one where the sorted value changes.
RankIncrement(prev, cur) == IF prev = cur THEN 0 ELSE 1

RECURSIVE RankOfPosition(_, _)
\* The 1-based dense rank of position k of the sorted values.
RankOfPosition(sorted, k) ==
    IF k = 1 THEN 1
    ELSE RankOfPosition(sorted, k - 1)
         + RankIncrement(sorted[k - 1], sorted[k])

\* The rank left 1-based.
ZeroBasedForgotten(rank) == rank

\* .astype(int) - 1
ZeroBased(rank) == rank - 1

\* Line 179: score_mapping, the 0-based dense rank of each cluster.
score_mapping(h) ==
    LET sorted == SortedValues(h, DOMAIN h)
    IN  [c \in DOMAIN h |->
            LET k == CHOOSE j \in 1..Len(sorted) : sorted[j] = h[c]
            IN  ZeroBased(RankOfPosition(sorted, k))]

\* The scale divided by the cluster count itself.
ScoreStepByCount(n) == Frac(SCORE_SCALE, n)

\* 1000 / (N_CLUSTERS - 1), for a cluster count above 1.
ScoreStep(n) == Frac(SCORE_SCALE, n - 1)

\* Line 182: (rank * (1000 / (N_CLUSTERS - 1))).astype(int)
ScaledScore(rank, n) == FracTrunc(FracMul(FracOfInt(rank), ScoreStep(n)))

\* What generate_credit_scores does to a non-empty table under a labelling:
\* the cluster column, and the scores or the exception of line 182.
ScoreTable(df, n, labels) ==
    LET mapping == score_mapping(cluster_health_metric(df, labels))
    IN  IF n - 1 = 0
        THEN [exc |-> "ZeroDivisionError", cluster |-> labels,
              credit_score |-> <<>>]
        ELSE [exc |-> "", cluster |-> labels,
              credit_score |->
                  [w \in DOMAIN df |-> ScaledScore(mapping[labels[w]], n)]]

(***************************************************************************)
(* main: the pipeline.                                                     *)
(***************************************************************************)
\* main going on whatever load_transaction_data returned.
AfterLoadUnchecked(data) == "loaded"

\* Lines 199-203: where main goes after load_transaction_data.
AfterLoad(data) == IF data = <<>> THEN "exit" ELSE "loaded"

\* Lines 206-210: where main goes after engineer_features.
AfterEngineer(rows) == IF DOMAIN rows = {} THEN "exit" ELSE "featured"

Init ==
    /\ pc = "start"
    /\ n_clusters = N_CLUSTERS
    /\ raw_data = <<>>
    /\ load_status = ""
    /\ df_features = <<>>
    /\ cluster = <<>>
    /\ credit_score = <<>>
    /\ output_written = FALSE
    /\ error = ""
    /\ steps = <<>>

\* load_transaction_data and main's check of its result. A missing file and
\* undecodable JSON both return [].
Load ==
    /\ pc = "start"
    /\ \E outcome \in {"ok", "FileNotFoundError", "JSONDecodeError"} :
       \E data \in (IF outcome = "ok" THEN Inputs ELSE {<<>>}) :
          /\ load_status' = outcome
          /\ raw_data' = data
          /\ pc' = AfterLoad(data)
    /\ steps' = Append(steps, "load")
    /\ UNCHANGED <<n_clusters, df_features, cluster, credit_score,
                   output_written, error>>

\* engineer_features and main's check of its result.
Engineer ==
    /\ pc = "loaded"
    /\ LET r == engineer_features(raw_data)
       IN  IF r.exc # ""
           THEN /\ pc' = "crashed"
                /\ error' = r.exc
                /\ UNCHANGED df_features
           ELSE /\ pc' = AfterEngineer(r.rows)
                /\ df_features' = r.rows
                /\ UNCHANGED error
    /\ steps' = Append(steps, "engineer")
    /\ UNCHANGED <<n_clusters, raw_data, load_status, cluster, credit_score,
                   output_written>>

\* generate_credit_scores on the (non-empty) feature table.
Score ==
    /\ pc = "featured"
    /\ IF KMeansRaises(n_clusters, Cardinality(DOMAIN df_features))
       THEN /\ pc' = "crashed"
            /\ error' = "ValueError"
            /\ UNCHANGED <<cluster, credit_score>>
       ELSE \E labels \in Labellings(DOMAIN df_features, n_clusters) :
               LET r == ScoreTable(df_features, n_clusters, labels)
               IN  /\ cluster' = r.cluster
                   /\ credit_score' = r.credit_score
                   /\ error' = r.exc
                   /\ pc' = IF r.exc # "" THEN "crashed" ELSE "scored"
    /\ steps' = Append(steps, "score")
    /\ UNCHANGED <<n_clusters, raw_data, load_status, df_features,
                   output_written>>

\* to_csv inside try/except: the file is written or the failure is logged.
Save ==
    /\ pc = "scored"
    /\ \E ok \in BOOLEAN : output_written' = ok
    /\ pc' = "done"
    /\ steps' = Append(steps, "save")
    /\ UNCHANGED <<n_clusters, raw_data, load_status, df_features, cluster,
                   credit_score, error>>

Next == Load \/ Engineer \/ Score \/ Save

Spec == Init /\ [][Next]_vars

\* The cluster counts a configuration may set.
ConfigValues == 0..N_CLUSTERS

InitCfg ==
    /\ pc = "start"
    /\ n_clusters \in ConfigValues
    /\ raw_data = <<>>
    /\ load_status = ""
    /\ df_features = <<>>
    /\ cluster = <<>>
    /\ credit_score = <<>>
    /\ output_written = FALSE
    /\ error = ""
    /\ steps = <<>>

\* The pipeline with N_CLUSTERS as a configuration parameter.
SpecCfg == InitCfg /\ [][Next]_vars

(***************************************************************************)
(* Vocabulary of the properties.                                           *)
(***************************************************************************)
\* engineer_features has just returned a feature table with rows to main
\* (no later step changes the table or the loaded records).
Featured == pc = "featured"

\* generate_credit_scores has just returned the scored table (Save leaves
\* the table as it is).
Scored == pc = "scored"

\* The record is one the scan counts.
Counted(tx) ==
    /\ DictGetDefault(tx.action, JStr("")).t = "str"
    /\ HasEssentials(DictGet(tx.userWallet), Lower(tx.action.s),
                     DictGet(tx.timestamp))
    /\ UsdValue(tx).exc = ""

\* The counted records of wallet w in the loaded list.
CountedOf(w) ==
    {i \in 1..Len(raw_data) : Counted(raw_data[i]) /\ raw_data[i].userWallet.s = w}

\* A field that is missing: an absent key, null or the empty string.
Missing(v) == v.t \in {"absent", "null"} \/ (v.t = "str" /\ v.s = "")

\* A record the data model calls invalid.
Invalid(tx) ==
    \/ Missing(tx.userWallet)
    \/ Missing(tx.action)
    \/ Missing(tx.timestamp)
    \/ UsdValue(tx).exc # ""

\* A record that carries a wallet, an action, an integer timestamp >= 0 and
\* a numeric amount.
Complete(tx) ==
    /\ ~Invalid(tx)
    /\ tx.timestamp.t = "num"
    /\ tx.timestamp.n >= 0

RECURSIVE Keep(_, _)
\* The list without its invalid records.
Keep(list, i) ==
    IF i > Len(list) THEN <<>>
    ELSE (IF Invalid(list[i]) THEN <<>> ELSE <<list[i]>>) \o Keep(list, i + 1)

Reordered(list, p) == [i \in 1..Len(list) |-> list[p[i]]]

\* The composite health of the clusters of the scored table, tabulated.
Health == cluster_health_metric(df_features, cluster) @@ <<>>

\* The distinct values of a function.
Values(h) == {h[c] : c \in DOMAIN h}

\* 1000 / (N_CLUSTERS - 1) for the default cluster count.
Band == SCORE_SCALE \div (N_CLUSTERS - 1)

(***************************************************************************)
(* C1. engineer_features returns the same wallets and the same feature     *)
(* vector per wallet for every permutation of the record list.             *)
(***************************************************************************)
C1_OrderIndependent ==
    (Featured /\ Len(raw_data) <= MaxLen) =>
        \A p \in Permutations(1..Len(raw_data)) :
            LET r == engineer_features(Reordered(raw_data, p))
            IN  r.exc = "" /\ r.rows = df_features

(***************************************************************************)
(* C2. Every invalid record is skipped: engineer_features completes        *)
(* normally and returns what it returns for the list without them.         *)
(***************************************************************************)
C2_InvalidRecordsSkipped ==
    (Len(steps) >= 2 /\ steps[2] = "engineer") =>
        /\ error \notin {"AttributeError", "KeyError", "TypeError"}
        /\ Featured => df_features = engineer_features(Keep(raw_data, 1)).rows

(***************************************************************************)
(* C3. For a list of complete records (timestamp any integer >= 0),        *)
(* total_tx of a wallet is the number of its records and active_days is    *)
(* (max timestamp - min timestamp) / 86400 over all of them.               *)
(***************************************************************************)
C3_CountsEveryRecord ==
    (Featured /\ \A i \in 1..Len(raw_data) : Complete(raw_data[i])) =>
        \A w \in {raw_data[i].userWallet.s : i \in 1..Len(raw_data)} :
            LET mine == {i \in 1..Len(raw_data) :
                            raw_data[i].userWallet.s = w}
                ts == {raw_data[i].timestamp.n : i \in mine}
                hi == CHOOSE x \in ts : \A y \in ts : y <= x
                lo == CHOOSE x \in ts : \A y \in ts : x <= y
            IN  /\ w \in DOMAIN df_features
                /\ df_features[w].total_tx = Cardinality(mine)
                /\ df_features[w].active_days = Frac(hi - lo, SECONDS_PER_DAY)

(***************************************************************************)
(* C4 as stated. A wallet whose only counted record has the action         *)
(* "liquidation-call" gets liquidation_ratio 1, num_liquidations 1 and     *)
(* repay_borrow_ratio_count 1.                                             *)
(***************************************************************************)
C4_HyphenatedLiquidationCounted ==
    Featured =>
        \A w \in DOMAIN df_features :
            (/\ Cardinality(CountedOf(w)) = 1
             /\ \A i \in CountedOf(w) :
                    raw_data[i].action.s = "liquidation-call")
                => /\ df_features[w].liquidation_ratio = FracOfInt(1)
                   /\ df_features[w].num_liquidations = 1
                   /\ df_features[w].repay_borrow_ratio_count = FracOfInt(1)

(***************************************************************************)
(* C4 amended. The liquidations of a wallet are its counted records whose  *)
(* action is "liquidationcall" in any letter case: num_liquidations is     *)
(* their number, liquidation_ratio is that number over total_tx, and a     *)
(* wallet whose only counted record is one gets liquidation_ratio 1,       *)
(* num_liquidations 1 and repay_borrow_ratio_count 1.                      *)
(***************************************************************************)
C4_LiquidationRatio ==
    Featured =>
        \A w \in DOMAIN df_features :
            LET liq == {i \in CountedOf(w) :
                           raw_data[i].action.s
                               \in {"liquidationcall", "LiquidationCall"}}
                row == df_features[w]
            IN  /\ row.num_liquidations = Cardinality(liq)
                /\ row.liquidation_ratio = Frac(Cardinality(liq), row.total_tx)
                /\ (Cardinality(CountedOf(w)) = 1 /\ Cardinality(liq) = 1) =>
                       /\ row.liquidation_ratio = FracOfInt(1)
                       /\ row.num_liquidations = 1
                       /\ row.repay_borrow_ratio_count = FracOfInt(1)

\* A wallet whose only counted record is a "LiquidationCall".
C4_Witness ==
    /\ Featured
    /\ \E w \in DOMAIN df_features :
          /\ Cardinality(CountedOf(w)) = 1
          /\ \A i \in CountedOf(w) : raw_data[i].action.s = "LiquidationCall"
          /\ df_features[w].liquidation_ratio = FracOfInt(1)

(***************************************************************************)
(* C5. Every credit_score is one of floor(k * 1000 / (N_CLUSTERS - 1)),    *)
(* k = 0..N_CLUSTERS-1, hence within 0..1000, whatever the labelling.      *)
(***************************************************************************)
C5_ScoreRange ==
    Scored =>
        \A w \in DOMAIN df_features :
            /\ w \in DOMAIN credit_score
            /\ credit_score[w] \in
                   {(k * SCORE_SCALE) \div (N_CLUSTERS - 1) :
                        k \in 0..(N_CLUSTERS - 1)}
            /\ credit_score[w] >= 0
            /\ credit_score[w] <= SCORE_SCALE

\* A scored table in which every one of the N_CLUSTERS scores occurs.
C5_Witness ==
    /\ Scored
    /\ {credit_score[w] : w \in DOMAIN credit_score}
           = {k * Band : k \in 0..(N_CLUSTERS - 1)}

(***************************************************************************)
(* C6 as stated. For any labelling the wallets of the cluster of lowest    *)
(* composite health score 0 and those of the cluster of highest composite  *)
(* health score 1000.                                                      *)
(***************************************************************************)
C6_ExtremesForAnyLabelling ==
    Scored =>
        LET h == Health
        IN  \A w \in DOMAIN cluster :
                /\ (\A c \in DOMAIN h : FracLe(h[cluster[w]], h[c]))
                       => credit_score[w] = 0
                /\ (\A c \in DOMAIN h : FracLe(h[c], h[cluster[w]]))
                       => credit_score[w] = SCORE_SCALE

(***************************************************************************)
(* C6 amended. The wallets of the cluster of lowest composite health score *)
(* 0; those of the cluster of highest composite health score               *)
(* (m - 1) * 1000 / (N_CLUSTERS - 1), m the number of distinct composite   *)
(* health values of the non-empty clusters, which is 1000 exactly when     *)
(* there are N_CLUSTERS distinct values; and two clusters with no health   *)
(* value between theirs are 1000 / (N_CLUSTERS - 1) apart.                 *)
(***************************************************************************)
C6_ExtremesByDistinctHealth ==
    Scored =>
        LET h == Health
            m == Cardinality(Values(h))
        IN  \A w \in DOMAIN cluster :
                /\ (\A c \in DOMAIN h : FracLe(h[cluster[w]], h[c]))
                       => credit_score[w] = 0
                /\ (\A c \in DOMAIN h : FracLe(h[c], h[cluster[w]]))
                       => /\ credit_score[w] = (m - 1) * Band
                          /\ (credit_score[w] = SCORE_SCALE <=> m = N_CLUSTERS)
                /\ \A v \in DOMAIN cluster :
                      (/\ FracLt(h[cluster[w]], h[cluster[v]])
                       /\ ~\E c \in DOMAIN h :
                              /\ FracLt(h[cluster[w]], h[c])
                              /\ FracLt(h[c], h[cluster[v]]))
                          => credit_score[v] - credit_score[w] = Band

\* N_CLUSTERS distinct health values: the best cluster scores 1000.
C6_Witness ==
    /\ Scored
    /\ LET h == Health
       IN  /\ Cardinality(Values(h)) = N_CLUSTERS
           /\ \E w \in DOMAIN cluster :
                 /\ \A c \in DOMAIN h : FracLe(h[c], h[cluster[w]])
                 /\ credit_score[w] = SCORE_SCALE

(***************************************************************************)
(* C7. The score is a function of the cluster's dense rank by composite    *)
(* health: the same cluster or equal health give the same score, strictly  *)
(* lower health a strictly lower score, and the score is the number of     *)
(* distinct health values strictly below, scaled by 1000/(N_CLUSTERS-1).   *)
(***************************************************************************)
C7_ScoreByDenseRank ==
    Scored =>
        LET h == Health
            below == [c \in DOMAIN h |->
                         Cardinality({x \in Values(h) : FracLt(x, h[c])})]
        IN  \A a \in DOMAIN cluster :
                /\ \A b \in DOMAIN cluster :
                      /\ cluster[a] = cluster[b]
                             => credit_score[a] = credit_score[b]
                      /\ h[cluster[a]] = h[cluster[b]]
                             => credit_score[a] = credit_score[b]
                      /\ FracLt(h[cluster[a]], h[cluster[b]])
                             => credit_score[a] < credit_score[b]
                /\ credit_score[a] = Band * below[cluster[a]]

\* Two clusters tied in health above a third one.
C7_Witness ==
    /\ Scored
    /\ LET h == Health
       IN  \E a, b, c \in DOMAIN h :
              /\ a # b
              /\ h[a] = h[b]
              /\ FracLt(h[c], h[a])
              /\ \A w, v \in DOMAIN cluster :
                    /\ (cluster[w] = a /\ cluster[v] = b)
                           => credit_score[w] = credit_score[v]
                    /\ (cluster[w] = c /\ cluster[v] = a)
                           => credit_score[w] < credit_score[v]

(***************************************************************************)
(* C8. The output is written only after load, engineer and score have      *)
(* completed in that order; when loading fails or yields no records, or    *)
(* feature engineering yields an empty table, nothing runs afterwards.     *)
(***************************************************************************)
C8_PipelineOrder ==
    /\ (output_written \/ (steps # <<>> /\ steps[Len(steps)] = "save"))
           => /\ steps = <<"load", "engineer", "score", "save">>
              /\ error = ""
              /\ DOMAIN credit_score = DOMAIN df_features
    /\ \A i \in 1..Len(steps) :
          steps[i] = <<"load", "engineer", "score", "save">>[i]
    /\ (load_status \in {"FileNotFoundError", "JSONDecodeError"}
            \/ (load_status = "ok" /\ raw_data = <<>>))
           => steps = <<"load">> /\ pc = "exit" /\ ~output_written
    /\ (Len(steps) >= 2 /\ DOMAIN df_features = {})
           => Len(steps) = 2 /\ pc \in {"exit", "crashed"} /\ ~output_written

\* The whole pipeline ran and the output was written.
C8_Witness ==
    /\ pc = "done"
    /\ output_written
    /\ steps = <<"load", "engineer", "score", "save">>

(***************************************************************************)
(* C9. Whatever the configured cluster count, generate_credit_scores never *)
(* evaluates 1000 / (N_CLUSTERS - 1) with a zero divisor.                  *)
(***************************************************************************)
C9_NeverDividesByZero ==
    ~(n_clusters - 1 = 0 /\ error = "ZeroDivisionError")

(***************************************************************************)
(* C10. Every numeric feature of every output wallet is non-negative, for  *)
(* amounts and prices of either sign.                                      *)
(***************************************************************************)
C10_FeaturesNonNegative ==
    Featured =>
        \A w \in DOMAIN df_features :
            LET row == df_features[w]
            IN  /\ row.total_tx >= 1
                /\ row.total_usd_all_actions >= 0
                /\ row.repay_borrow_ratio_count.num >= 0
                /\ row.num_liquidations >= 0
                /\ row.liquidation_ratio.num >= 0
                /\ row.active_days.num >= 0
                /\ row.avg_time_between_tx_days.num >= 0

=============================================================================
